---- MODULE Spec2Model ----
(***************************************************************************)
(* mtcli: the interactive typing session.                                  *)
(*                                                                         *)
(* The model covers internal/test (Session, MetricsTracker) and the event  *)
(* loop of the "test" command (runTest): the control loop, the input       *)
(* goroutine that feeds keyChan/errChan, the 200 ms ticker and the timer   *)
(* goroutine that Session.Start spawns in timer mode.                      *)
(*                                                                         *)
(* Time is in milliseconds.  The zero time.Time is 0; the wall clock `now` *)
(* starts at Epoch > 0 and advances in steps of TimeStep.                  *)
(* Floating point results are kept as scaled integers: accuracy in         *)
(* hundredths of a percent, WPM in thousandths of a word per minute.       *)
(***************************************************************************)
EXTENDS Integers, Sequences, FiniteSets, TLC

\* ---------------------------------------------------------------- bounds
MaxTargetLen == 2
MaxKeys == 4
MaxSteps == 4
TimeStep == 250
MaxPoints == 3

Epoch == TimeStep
MaxTime == Epoch + MaxSteps * TimeStep

\* ------------------------------------------------------------- constants
ModeTimer == "timer"
ModeWords == "words"
ModeQuote == "quote"
Modes == {ModeTimer, ModeWords, ModeQuote}

CharUnattempted == "Unattempted"
CharCorrect == "Correct"
CharIncorrect == "Incorrect"

KeyRune == "Rune"
KeyBackspace == "Backspace"
KeyEnter == "Enter"
KeyEscape == "Escape"
KeyCtrlC == "CtrlC"
KeyUnknown == "Unknown"

sampleInterval == 500
tickInterval == 200
charsPerWord == 5

ZeroTime == 0
NoRune == "none"
Runes == {"a", "b"}

SecondsChoices == {1}

\* The target texts: "a", "ab", "aba", ...
Targets ==
  {[i \in 1..n |-> IF i % 2 = 1 THEN "a" ELSE "b"] : n \in 1..MaxTargetLen}

KeyEvents ==
  {[Type |-> KeyRune, Rune |-> r] : r \in Runes}
    \cup {[Type |-> t, Rune |-> NoRune] :
            t \in {KeyBackspace, KeyEnter, KeyEscape, KeyCtrlC, KeyUnknown}}

NoKey == [Type |-> "none", Rune |-> NoRune]
NoResult == [Mode |-> "none"]
\* The values of --words and --seconds.
WordsOptions == {-1, 0, 1}
SecondsOptions == {-1, 0, 1}

\* No session has been constructed.
NoSession == [none |-> TRUE]

\* runTest has reached its event loop.
SetupDone == [pc |-> "running"]
\* No chart has been asked for.
NoChart == [pc |-> "none"]
NoRuneBack ==
  [phase |-> "none", cc |-> 0, running |-> FALSE, accepted |-> FALSE,
   correct |-> FALSE, live |-> FALSE]

\* -------------------------------------------------------- pure functions
\* time.Time.Sub: the difference in ms.  (With t the zero time the result is
\* negative; Go saturates it at the minimum Duration, negative as well.)
Sub(t, u) == t - u

\* Duration.Minutes() floored at 0.001 minute, expressed in ms (60 ms).
FlooredMinutesMs(elapsed) ==
  IF elapsed < 60 THEN 60 ELSE elapsed

\* (chars / 5) / minutes, in thousandths of a WPM.
WPMOf(chars, elapsed) ==
  (chars * 60000 * 1000) \div (charsPerWord * FlooredMinutesMs(elapsed))

\* Accuracy with an empty session counted as perfect.
AccuracyOfEmptyIsPerfect(correctChars, totalTyped) ==
  IF totalTyped > 0 THEN (correctChars * 100 * 100) \div totalTyped ELSE 100 * 100

\* correct / total * 100, in hundredths of a percent; 0 when nothing typed.
AccuracyOf(correctChars, totalTyped) ==
  IF totalTyped > 0 THEN (correctChars * 100 * 100) \div totalTyped ELSE 0

NewMetricsTracker ==
  [samples |-> <<>>, lastSampleTime |-> ZeroTime,
   totalTyped |-> 0, correctChars |-> 0]

NewSession(target, mode, seconds) ==
  [state |-> [Mode |-> mode,
              TargetRunes |-> target,
              TypedRunes |-> <<>>,
              CharStates |-> [i \in 1..Len(target) |-> CharUnattempted],
              StartedAt |-> ZeroTime,
              EndedAt |-> ZeroTime,
              Finished |-> FALSE,
              Aborted |-> FALSE],
   metrics |-> NewMetricsTracker,
   timerSeconds |-> seconds,
   timerDone |-> "nil",
   panicked |-> FALSE]

\* close(s.timerDone) when it is not nil; closing a closed channel panics.
CloseTimerDone(s) ==
  IF s.timerDone = "nil" THEN s
  ELSE IF s.timerDone = "closed" THEN [s EXCEPT !.panicked = TRUE]
  ELSE [s EXCEPT !.timerDone = "closed"]

\* Start without the initial sample.
StartNoInitialSample(s, t) ==
  [s EXCEPT !.state.StartedAt = t,
            !.metrics.lastSampleTime = t,
            !.timerDone = IF s.state.Mode = ModeTimer /\ s.timerSeconds > 0
                          THEN "open" ELSE @]

Start(s, t) ==
  [s EXCEPT !.state.StartedAt = t,
            !.metrics.lastSampleTime = t,
            !.metrics.samples = Append(@, [TimeMs |-> 0, WPM |-> 0, RawWPM |-> 0]),
            !.timerDone = IF s.state.Mode = ModeTimer /\ s.timerSeconds > 0
                          THEN "open" ELSE @]

\* handleRune with correctChars++ moved out of the comparison.
handleRuneCountsAll(s, r) ==
  LET idx == Len(s.state.TypedRunes) + 1 IN
  IF idx > Len(s.state.TargetRunes) THEN s
  ELSE [s EXCEPT !.state.TypedRunes = Append(@, r),
                 !.metrics.totalTyped = @ + 1,
                 !.state.CharStates[idx] =
                     IF r = s.state.TargetRunes[idx] THEN CharCorrect ELSE CharIncorrect,
                 !.metrics.correctChars = @ + 1]

\* handleRune with totalTyped++ moved into the Incorrect branch.
handleRuneTotalOnMiss(s, r) ==
  LET idx == Len(s.state.TypedRunes) + 1 IN
  IF idx > Len(s.state.TargetRunes) THEN s
  ELSE IF r = s.state.TargetRunes[idx]
       THEN [s EXCEPT !.state.TypedRunes = Append(@, r),
                      !.state.CharStates[idx] = CharCorrect,
                      !.metrics.correctChars = @ + 1]
       ELSE [s EXCEPT !.state.TypedRunes = Append(@, r),
                      !.metrics.totalTyped = @ + 1,
                      !.state.CharStates[idx] = CharIncorrect]

\* handleRune without the length cap: a rune past the end of the target is
\* appended and counted.
handleRuneNoCap(s, r) ==
  LET idx == Len(s.state.TypedRunes) + 1 IN
  IF idx > Len(s.state.TargetRunes)
  THEN [s EXCEPT !.state.TypedRunes = Append(@, r),
                 !.metrics.totalTyped = @ + 1]
  ELSE IF r = s.state.TargetRunes[idx]
       THEN [s EXCEPT !.state.TypedRunes = Append(@, r),
                      !.metrics.totalTyped = @ + 1,
                      !.state.CharStates[idx] = CharCorrect,
                      !.metrics.correctChars = @ + 1]
       ELSE [s EXCEPT !.state.TypedRunes = Append(@, r),
                      !.metrics.totalTyped = @ + 1,
                      !.state.CharStates[idx] = CharIncorrect]

\* handleRune marking every accepted rune Correct.
handleRuneMarksCorrect(s, r) ==
  LET idx == Len(s.state.TypedRunes) + 1 IN
  IF idx > Len(s.state.TargetRunes) THEN s
  ELSE [s EXCEPT !.state.TypedRunes = Append(@, r),
                 !.metrics.totalTyped = @ + 1,
                 !.state.CharStates[idx] = CharCorrect,
                 !.metrics.correctChars =
                     IF r = s.state.TargetRunes[idx] THEN @ + 1 ELSE @]

handleRune(s, r) ==
  LET idx == Len(s.state.TypedRunes) + 1 IN
  IF idx > Len(s.state.TargetRunes) THEN s
  ELSE IF r = s.state.TargetRunes[idx]
       THEN [s EXCEPT !.state.TypedRunes = Append(@, r),
                      !.metrics.totalTyped = @ + 1,
                      !.state.CharStates[idx] = CharCorrect,
                      !.metrics.correctChars = @ + 1]
       ELSE [s EXCEPT !.state.TypedRunes = Append(@, r),
                      !.metrics.totalTyped = @ + 1,
                      !.state.CharStates[idx] = CharIncorrect]

\* handleBackspace without the verdict reset.
handleBackspaceKeepsVerdict(s) ==
  IF Len(s.state.TypedRunes) = 0 THEN s
  ELSE LET idx == Len(s.state.TypedRunes) IN
       [s EXCEPT !.metrics.correctChars =
                     IF s.state.CharStates[idx] = CharCorrect THEN @ - 1 ELSE @,
                 !.state.TypedRunes = SubSeq(@, 1, idx - 1)]

\* handleBackspace without the correctChars decrement.
handleBackspaceNoDecrement(s) ==
  IF Len(s.state.TypedRunes) = 0 THEN s
  ELSE LET idx == Len(s.state.TypedRunes) IN
       [s EXCEPT !.state.CharStates[idx] = CharUnattempted,
                 !.state.TypedRunes = SubSeq(@, 1, idx - 1)]

\* handleBackspace clearing the whole line instead of the last character.
handleBackspaceClearsLine(s) ==
  IF Len(s.state.TypedRunes) = 0 THEN s
  ELSE LET idx == Len(s.state.TypedRunes) IN
       [s EXCEPT !.metrics.correctChars =
                     IF s.state.CharStates[idx] = CharCorrect THEN @ - 1 ELSE @,
                 !.state.CharStates = [i \in 1..Len(s.state.CharStates) |-> CharUnattempted],
                 !.state.TypedRunes = <<>>]

handleBackspace(s) ==
  IF Len(s.state.TypedRunes) = 0 THEN s
  ELSE LET idx == Len(s.state.TypedRunes) IN
       [s EXCEPT !.metrics.correctChars =
                     IF s.state.CharStates[idx] = CharCorrect THEN @ - 1 ELSE @,
                 !.state.CharStates[idx] = CharUnattempted,
                 !.state.TypedRunes = SubSeq(@, 1, idx - 1)]

calculateSample(s, elapsed) ==
  [TimeMs |-> elapsed,
   WPM |-> WPMOf(s.metrics.correctChars, elapsed),
   RawWPM |-> WPMOf(s.metrics.totalTyped, elapsed)]

\* maybeTakeSample without the interval test.
maybeTakeSampleAlways(s, t) ==
  IF s.state.StartedAt = ZeroTime THEN s
  ELSE [s EXCEPT !.metrics.samples =
                     Append(@, calculateSample(s, Sub(t, s.state.StartedAt))),
                 !.metrics.lastSampleTime = t]

maybeTakeSample(s, t) ==
  IF s.state.StartedAt = ZeroTime THEN s
  ELSE IF Sub(t, s.metrics.lastSampleTime) >= sampleInterval
       THEN [s EXCEPT !.metrics.samples =
                          Append(@, calculateSample(s, Sub(t, s.state.StartedAt))),
                      !.metrics.lastSampleTime = t]
       ELSE s

TakeSample(s, t) ==
  IF s.state.StartedAt = ZeroTime \/ s.state.Finished \/ s.state.Aborted THEN s
  ELSE maybeTakeSample(s, t)

\* Abort without the close of timerDone.
AbortNoClose(s, t) ==
  [s EXCEPT !.state.Aborted = TRUE, !.state.EndedAt = t]

Abort(s, t) ==
  CloseTimerDone([s EXCEPT !.state.Aborted = TRUE, !.state.EndedAt = t])

finish(s, t) ==
  CloseTimerDone([s EXCEPT !.state.Finished = TRUE, !.state.EndedAt = t])

IsFinished(s) == s.state.Finished \/ s.state.Aborted

IsAborted(s) == s.state.Aborted

\* The key switch of HandleKey.
ApplyKey(s, keyType, r) ==
  IF keyType = KeyRune THEN handleRune(s, r)
  ELSE IF keyType = KeyBackspace THEN handleBackspace(s)
  ELSE s

\* The completion check with > for >=.
CheckCompletionOffByOne(s, t) ==
  IF s.state.Mode # ModeTimer /\ Len(s.state.TypedRunes) > Len(s.state.TargetRunes)
  THEN finish(s, t)
  ELSE s

\* The completion check of HandleKey (words and quote mode).
CheckCompletion(s, t) ==
  IF s.state.Mode # ModeTimer /\ Len(s.state.TypedRunes) >= Len(s.state.TargetRunes)
  THEN finish(s, t)
  ELSE s

\* HandleKey without the call of Start on the first key.
HandleKeyNoStart(s, keyType, r, t1, t2) ==
  IF s.state.Finished \/ s.state.Aborted THEN s
  ELSE LET s2 == ApplyKey(s, keyType, r)
           s3 == CheckCompletion(s2, t1)
       IN maybeTakeSample(s3, t2)

\* HandleKey; t1 is the clock read by Start and finish, t2 >= t1 the clock
\* read by maybeTakeSample.
HandleKey(s, keyType, r, t1, t2) ==
  IF s.state.Finished \/ s.state.Aborted THEN s
  ELSE LET s1 == IF s.state.StartedAt = ZeroTime THEN Start(s, t1) ELSE s
           s2 == ApplyKey(s1, keyType, r)
           s3 == CheckCompletion(s2, t1)
       IN maybeTakeSample(s3, t2)

\* The SessionState object that s.state points to.
StateRef == "s.state"

\* GetState returns s.state, the session's own pointer.
GetState(s) == StateRef

\* GetResult, first part: the final sample is appended to the stored samples.
GetResultSession(s) ==
  IF s.state.StartedAt # ZeroTime /\ s.state.EndedAt # ZeroTime
  THEN [s EXCEPT !.metrics.samples =
                     Append(@, calculateSample(s, Sub(s.state.EndedAt, s.state.StartedAt)))]
  ELSE s

\* GetResult, second part: the SessionResult computed from the session.
GetResult(s) ==
  LET duration == Sub(s.state.EndedAt, s.state.StartedAt) IN
  [Mode |-> s.state.Mode,
   StartedAt |-> s.state.StartedAt,
   Duration |-> duration,
   TargetLen |-> Len(s.state.TargetRunes),
   TotalTyped |-> s.metrics.totalTyped,
   CorrectChars |-> s.metrics.correctChars,
   WPM |-> WPMOf(s.metrics.correctChars, duration),
   RawWPM |-> WPMOf(s.metrics.totalTyped, duration),
   Accuracy |-> AccuracyOf(s.metrics.correctChars, s.metrics.totalTyped),
   Samples |-> s.metrics.samples]

\* ----------------------------------------------------------------- charts
\* Values are whole numbers; a coordinate the code holds as a float64 is the
\* exact fraction num/den here, and the padded value range is kept times 10.
GlyphEmpty == " "
GlyphSolid == "solid"
GlyphLight == "light"
GlyphConnector == "dot"

Max(a, b) == IF a >= b THEN a ELSE b

Abs(a) == IF a >= 0 THEN a ELSE -a

\* int(math.Round(num/den)) for den > 0: halves go away from zero.
RoundDiv(num, den) ==
  IF num >= 0 THEN (2 * num + den) \div (2 * den)
  ELSE -((2 * (-num) + den) \div (2 * den))

clampInt(val, min, max) ==
  IF val < min THEN min ELSE IF val > max THEN max ELSE val

findMinMax(points) ==
  IF Len(points) = 0 THEN [min |-> 0, max |-> 100]
  ELSE [min |-> CHOOSE v \in {points[i].Value : i \in 1..Len(points)} :
                  \A i \in 1..Len(points) : v <= points[i].Value,
        max |-> CHOOSE v \in {points[i].Value : i \in 1..Len(points)} :
                  \A i \in 1..Len(points) : v >= points[i].Value]

\* minVal and maxVal after the 10% padding, times 10.
PaddedRange(points) ==
  LET mm == findMinMax(points)
      valRange == Max(mm.max - mm.min, 1)
  IN [min10 |-> Max(0, 10 * mm.min - valRange),
      max10 |-> 10 * mm.max + valRange]

\* mapToRange(TimeMs, 0, maxTime, 0, width-1), rounded and clamped.
ColumnOf(timeMs, maxTime, width) ==
  IF maxTime = 0 THEN 0
  ELSE clampInt(RoundDiv(timeMs * (width - 1), maxTime), 0, width - 1)

\* The value mapping with row 0 at the smallest value.
RowOfNotInverted(value, rng, height) ==
  clampInt(RoundDiv((height - 1) * (10 * value - rng.min10), rng.max10 - rng.min10),
           0, height - 1)

\* mapToRange(Value, minVal, maxVal, height-1, 0), rounded and clamped.
RowOf(value, rng, height) ==
  clampInt(RoundDiv((height - 1) * (rng.max10 - 10 * value), rng.max10 - rng.min10),
           0, height - 1)

EmptyGrid(height, width) ==
  [r \in 0..(height - 1) |-> [c \in 0..(width - 1) |-> GlyphEmpty]]

\* The grid cells of the points of a series, in order.
PointCells(points, maxTime, rng, width, height) ==
  [i \in 1..Len(points) |->
     [row |-> RowOf(points[i].Value, rng, height),
      col |-> ColumnOf(points[i].TimeMs, maxTime, width)]]

\* The cells written one after the other with a glyph; with onlyEmpty a cell
\* is written only while it holds a space.
RECURSIVE PlotFrom(_, _, _, _, _)
PlotFrom(grid, cells, i, glyph, onlyEmpty) ==
  IF i > Len(cells) THEN grid
  ELSE LET c == cells[i]
           g == IF onlyEmpty /\ grid[c.row][c.col] # GlyphEmpty THEN grid
                ELSE [grid EXCEPT ![c.row][c.col] = glyph]
       IN PlotFrom(g, cells, i + 1, glyph, onlyEmpty)

\* connectPoints: steps of the segment from point i to point i+1.
SegmentSteps(points, i, maxTime, rng, width, height) ==
  Max(Abs((points[i + 1].TimeMs - points[i].TimeMs) * (width - 1)) \div maxTime,
      Abs((height - 1) * 10 * (points[i].Value - points[i + 1].Value))
        \div (rng.max10 - rng.min10))

\* connectPoints: the cells of the segment from point i to point i+1.
SegmentCells(points, i, maxTime, rng, width, height) ==
  LET steps == SegmentSteps(points, i, maxTime, rng, width, height)
      xNum(k) == points[i].TimeMs * (width - 1) * steps
                   + k * (points[i + 1].TimeMs - points[i].TimeMs) * (width - 1)
      yNum(k) == (height - 1) * (rng.max10 - 10 * points[i].Value) * steps
                   + k * (height - 1) * 10 * (points[i].Value - points[i + 1].Value)
  IN IF steps = 0 THEN <<>>
     ELSE [k \in 1..(steps + 1) |->
             [row |-> clampInt(RoundDiv(yNum(k - 1), (rng.max10 - rng.min10) * steps),
                               0, height - 1),
              col |-> clampInt(RoundDiv(xNum(k - 1), maxTime * steps), 0, width - 1)]]

\* The time of the last point, 1 when that is 0.
ConnectMaxTime(points) ==
  IF points[Len(points)].TimeMs = 0 THEN 1 ELSE points[Len(points)].TimeMs

\* connectPoints: the cells of one segment get the connector glyph; with
\* onlyEmpty a cell is written only if it holds a space.  (All writes of the
\* loop write the same glyph, so their order does not matter.)
ConnectSegment(grid, cells, onlyEmpty) ==
  LET hit == {<<cells[k].row, cells[k].col>> : k \in DOMAIN cells}
  IN [r \in DOMAIN grid |->
        [c \in DOMAIN grid[r] |->
           IF <<r, c>> \in hit /\ (~onlyEmpty \/ grid[r][c] = GlyphEmpty)
           THEN GlyphConnector ELSE grid[r][c]]]

RECURSIVE ConnectFrom(_, _, _, _, _, _, _)
ConnectFrom(grid, points, i, rng, width, height, onlyEmpty) ==
  IF i >= Len(points) THEN grid
  ELSE ConnectFrom(
         ConnectSegment(grid,
                        SegmentCells(points, i, ConnectMaxTime(points), rng, width, height),
                        onlyEmpty),
         points, i + 1, rng, width, height, onlyEmpty)

\* connectPoints writing the connector over whatever the cell holds.
connectPointsOverwrites(grid, points, rng, width, height) ==
  IF Len(points) < 2 THEN grid
  ELSE ConnectFrom(grid, points, 1, rng, width, height, FALSE)

connectPoints(grid, points, rng, width, height) ==
  IF Len(points) < 2 THEN grid
  ELSE ConnectFrom(grid, points, 1, rng, width, height, TRUE)

NoData == [noData |-> TRUE]

\* The chart area of RenderChart after its minimum dimensions.
ChartDims(opts) ==
  [width |-> Max((IF opts.Width < 20 THEN 20 ELSE opts.Width) - 6, 10),
   height |-> IF opts.Height < 5 THEN 5 ELSE opts.Height]

\* RenderChart, up to the grid (the labels and axes are not modelled).
RenderChart(points, opts) ==
  IF Len(points) = 0 THEN NoData
  ELSE LET rng == PaddedRange(points)
           dims == ChartDims(opts)
           plotted == PlotFrom(EmptyGrid(dims.height, dims.width),
                               PointCells(points, points[Len(points)].TimeMs, rng,
                                          dims.width, dims.height),
                               1, GlyphSolid, FALSE)
       IN [noData |-> FALSE, width |-> dims.width, height |-> dims.height,
           grid |-> connectPoints(plotted, points, rng, dims.width, dims.height)]

\* The largest last TimeMs of the two series, 1 when that is 0.
DualMaxTime(primary, secondary) ==
  LET p == IF Len(primary) > 0 THEN primary[Len(primary)].TimeMs ELSE 0
      m == IF Len(secondary) > 0 /\ secondary[Len(secondary)].TimeMs > p
           THEN secondary[Len(secondary)].TimeMs ELSE p
  IN IF m = 0 THEN 1 ELSE m

\* RenderDualChart with the primary series drawn only into empty cells.
RenderDualChartSecondaryWins(primary, secondary, opts) ==
  IF Len(primary) = 0 /\ Len(secondary) = 0 THEN NoData
  ELSE LET rng == PaddedRange(primary \o secondary)
           width == Max(opts.Width - 6, 10)
           maxTime == DualMaxTime(primary, secondary)
           light == PlotFrom(EmptyGrid(opts.Height, width),
                             PointCells(secondary, maxTime, rng, width, opts.Height),
                             1, GlyphLight, TRUE)
       IN [noData |-> FALSE, width |-> width, height |-> opts.Height,
           grid |-> PlotFrom(light,
                             PointCells(primary, maxTime, rng, width, opts.Height),
                             1, GlyphSolid, TRUE)]

\* RenderDualChart, up to the grid.
RenderDualChart(primary, secondary, opts) ==
  IF Len(primary) = 0 /\ Len(secondary) = 0 THEN NoData
  ELSE LET rng == PaddedRange(primary \o secondary)
           width == Max(opts.Width - 6, 10)
           maxTime == DualMaxTime(primary, secondary)
           light == PlotFrom(EmptyGrid(opts.Height, width),
                             PointCells(secondary, maxTime, rng, width, opts.Height),
                             1, GlyphLight, TRUE)
       IN [noData |-> FALSE, width |-> width, height |-> opts.Height,
           grid |-> PlotFrom(light,
                             PointCells(primary, maxTime, rng, width, opts.Height),
                             1, GlyphSolid, FALSE)]

\* The samples a chart is drawn from: times and speeds of a short session.
ChartTimes == {0, 500, 1000}
ChartValues == {0, 30, 60}
ChartSamples ==
  {[TimeMs |-> t, WPM |-> w, RawWPM |-> r] :
     t \in ChartTimes, w \in ChartValues, r \in ChartValues}
\* The series: any order of times, but a series that ends at 0 ms is all at
\* 0 ms (connectPoints takes the time range of any other such series as 1 ms
\* and walks thousands of steps per segment).
ChartSeries ==
  {series \in UNION {[1..n -> {p \in ChartSamples : p.WPM <= p.RawWPM}] :
                       n \in 0..MaxPoints} :
     Len(series) > 0 /\ series[Len(series)].TimeMs = 0
       => \A i \in 1..Len(series) : series[i].TimeMs = 0}
ChartWidths == {20}
ChartHeights == {5, 6}

\* wpmPoints and rawPoints as runTest builds them from the samples.
wpmPoints(samples) ==
  [i \in 1..Len(samples) |-> [TimeMs |-> samples[i].TimeMs, Value |-> samples[i].WPM]]
rawPoints(samples) ==
  [i \in 1..Len(samples) |-> [TimeMs |-> samples[i].TimeMs, Value |-> samples[i].RawWPM]]

\* ------------------------------------------------------------------ state
VARIABLES
  s,          \* the Session (state, metrics, timerSeconds, timerDone)
  now,        \* the wall clock, ms
  timerPc,    \* timer goroutine: "none", "select", "stamp", "done"
  loopPc,     \* runTest: "check", "select", "exited", "getResult",
              \*          "compute", "done", "error", "panic"
  inputPc,    \* input goroutine: "read", "sendKey", "sendErr", "exited"
  key,        \* the key event the input goroutine is sending on keyChan
  keysRead,   \* number of key events read so far
  tickReady,  \* a tick is buffered in ticker.C
  nextTick,   \* the time of the ticker's next tick
  result,     \* the SessionResult handed to the summary and to storage
  runeBack,   \* history: a rune event and the backspace event right after it
  onlyExact,  \* history: the keys dispatched so far are a prefix of the target
  setup,      \* runTest before the loop: its position and the options
  chart       \* the chart renderer: its input series, options and grid

vars == <<s, now, timerPc, loopPc, inputPc, key, keysRead, tickReady,
          nextTick, result, runeBack, onlyExact, setup, chart>>

ProcessExited == loopPc \in {"done", "error", "panic", "again"}

Init ==
  /\ \E mode \in Modes, target \in Targets, seconds \in SecondsChoices :
        s = NewSession(target, mode, seconds)
  /\ now = Epoch
  /\ timerPc = "none"
  /\ loopPc = "check"
  /\ inputPc = "read"
  /\ key = NoKey
  /\ keysRead = 0
  /\ tickReady = FALSE
  /\ nextTick = Epoch + tickInterval
  /\ result = NoResult
  /\ runeBack = NoRuneBack
  /\ onlyExact = TRUE
  /\ setup = SetupDone
  /\ chart = NoChart

\* The ticker's next tick after time t: ticks that were due are not made up.
TickAfter(next, t) ==
  IF t >= next THEN next + tickInterval * ((t - next) \div tickInterval + 1)
  ELSE next

\* Time passes; the 200 ms ticker puts a tick in its one-slot channel when
\* its time has come.  At MaxTime the modelled clock stops; the ticker does
\* not.
Advance ==
  /\ ~ProcessExited
  /\ setup = SetupDone
  /\ now < MaxTime \/ ~tickReady
  /\ now' = IF now < MaxTime THEN now + TimeStep ELSE now
  /\ tickReady' = (tickReady \/ now' >= nextTick \/ now = MaxTime)
  /\ nextTick' = TickAfter(nextTick, now')
  /\ UNCHANGED <<s, timerPc, loopPc, inputPc, key, keysRead, result,
                 runeBack, onlyExact>>
  /\ UNCHANGED <<setup, chart>>

\* An input goroutine that reads on while a key is still waiting on keyChan,
\* and replaces it.
ReadKeyOverwrite ==
  /\ ~ProcessExited
  /\ inputPc \in {"read", "sendKey"}
  /\ keysRead < MaxKeys
  /\ \E k \in KeyEvents : key' = k
  /\ inputPc' = "sendKey"
  /\ keysRead' = keysRead + 1
  /\ UNCHANGED <<s, now, timerPc, loopPc, tickReady, nextTick, result,
                 runeBack, onlyExact>>
  /\ UNCHANGED <<setup, chart>>

\* Input goroutine: reader.ReadKey() returns a key.
ReadKey ==
  /\ ~ProcessExited
  /\ inputPc = "read"
  /\ keysRead < MaxKeys
  /\ \E k \in KeyEvents : key' = k
  /\ inputPc' = "sendKey"
  /\ keysRead' = keysRead + 1
  /\ UNCHANGED <<s, now, timerPc, loopPc, tickReady, nextTick, result,
                 runeBack, onlyExact>>
  /\ UNCHANGED <<setup, chart>>

\* Input goroutine: reader.ReadKey() returns an error.
ReadErr ==
  /\ ~ProcessExited
  /\ inputPc = "read"
  /\ inputPc' = "sendErr"
  /\ UNCHANGED <<s, now, timerPc, loopPc, key, keysRead, tickReady, nextTick,
                 result, runeBack, onlyExact>>
  /\ UNCHANGED <<setup, chart>>

\* for !session.IsFinished()
LoopCheck ==
  /\ loopPc = "check"
  /\ loopPc' = IF IsFinished(s) THEN "exited" ELSE "select"
  /\ UNCHANGED <<s, now, timerPc, inputPc, key, keysRead, tickReady,
                 nextTick, result, runeBack, onlyExact>>
  /\ UNCHANGED <<setup, chart>>

\* What is read through a *SessionState.
Deref(ref) == s.state

\* The snapshot runTest takes for the initial render, before any event.
InitialSnapshot == GetState(s)

\* The session state at the time of the initial render.
StateAtInitialRender ==
  NewSession(s.state.TargetRunes, s.state.Mode, s.timerSeconds).state

\* The key switch with Enter handed to HandleKey.
DispatchEnterToHandleKey(k, t1, t2) ==
  IF k.Type \in {KeyCtrlC, KeyEscape} THEN Abort(s, t1)
  ELSE IF k.Type = KeyRune THEN HandleKey(s, KeyRune, k.Rune, t1, t2)
  ELSE IF k.Type \in {KeyBackspace, KeyEnter} THEN HandleKey(s, k.Type, NoRune, t1, t2)
  ELSE s

\* The session after the loop's key switch.
Dispatch(k, t1, t2) ==
  IF k.Type \in {KeyCtrlC, KeyEscape} THEN Abort(s, t1)
  ELSE IF k.Type = KeyRune THEN HandleKey(s, KeyRune, k.Rune, t1, t2)
  ELSE IF k.Type = KeyBackspace THEN HandleKey(s, KeyBackspace, NoRune, t1, t2)
  ELSE s

\* History of the last key events: after a rune event, the value of
\* correctChars before it, whether the session was not terminal, whether the
\* typed buffer had room (accepted) and whether the rune matched the target;
\* after the backspace event that follows it, the same with phase "back" and
\* whether the session was still not terminal (live); nothing after any other
\* key event.
RuneBackAfter(k) ==
  IF k.Type = KeyRune
  THEN [phase |-> "rune",
        cc |-> s.metrics.correctChars,
        running |-> ~IsFinished(s),
        accepted |-> Len(s.state.TypedRunes) < Len(s.state.TargetRunes),
        correct |-> /\ Len(s.state.TypedRunes) < Len(s.state.TargetRunes)
                    /\ k.Rune = s.state.TargetRunes[Len(s.state.TypedRunes) + 1],
        live |-> FALSE]
  ELSE IF k.Type = KeyBackspace /\ runeBack.phase = "rune"
  THEN [runeBack EXCEPT !.phase = "back", !.live = ~IsFinished(s)]
  ELSE NoRuneBack

\* case key := <-keyChan
KeyCase ==
  /\ loopPc = "select"
  /\ inputPc = "sendKey"
  /\ \E t2 \in {now, now + TimeStep} :
       /\ t2 <= MaxTime
       /\ t2 = now \/ (key.Type \in {KeyRune, KeyBackspace} /\ ~IsFinished(s))
       /\ s' = Dispatch(key, now, t2)
       /\ now' = t2
       /\ tickReady' = (tickReady \/ t2 >= nextTick)
       /\ nextTick' = TickAfter(nextTick, t2)
  /\ timerPc' = IF s.timerDone = "nil" /\ s'.timerDone = "open"
                THEN "select" ELSE timerPc
  /\ loopPc' = IF s'.panicked THEN "panic" ELSE "check"
  /\ inputPc' = "read"
  /\ key' = NoKey
  /\ runeBack' = RuneBackAfter(key)
  /\ onlyExact' = /\ onlyExact
                  /\ key.Type = KeyRune
                  /\ Len(s.state.TypedRunes) < Len(s.state.TargetRunes)
                  /\ key.Rune = s.state.TargetRunes[Len(s.state.TypedRunes) + 1]
  /\ UNCHANGED <<keysRead, result>>
  /\ UNCHANGED <<setup, chart>>

\* case <-ticker.C
TickCase ==
  /\ loopPc = "select"
  /\ tickReady
  /\ tickReady' = FALSE
  /\ s' = IF ~IsFinished(s) THEN TakeSample(s, now) ELSE s
  /\ loopPc' = "check"
  /\ UNCHANGED <<now, timerPc, inputPc, key, keysRead, nextTick, result,
                 runeBack, onlyExact>>
  /\ UNCHANGED <<setup, chart>>

\* case err := <-errChan: runTest returns the error.
ErrCase ==
  /\ loopPc = "select"
  /\ inputPc = "sendErr"
  /\ loopPc' = "error"
  /\ inputPc' = "exited"
  /\ UNCHANGED <<s, now, timerPc, key, keysRead, tickReady, nextTick, result,
                 runeBack, onlyExact>>
  /\ UNCHANGED <<setup, chart>>

\* if session.IsAborted() { return nil }
AfterLoop ==
  /\ loopPc = "exited"
  /\ loopPc' = IF IsAborted(s) THEN "done" ELSE "getResult"
  /\ UNCHANGED <<s, now, timerPc, inputPc, key, keysRead, tickReady,
                 nextTick, result, runeBack, onlyExact>>
  /\ UNCHANGED <<setup, chart>>

\* GetResult, the final sample.
GetResultSample ==
  /\ loopPc = "getResult"
  /\ s' = GetResultSession(s)
  /\ loopPc' = "compute"
  /\ UNCHANGED <<now, timerPc, inputPc, key, keysRead, tickReady, nextTick,
                 result, runeBack, onlyExact>>
  /\ UNCHANGED <<setup, chart>>

\* GetResult, the result; then the summary and saveSession.
GetResultCompute ==
  /\ loopPc = "compute"
  /\ result' = GetResult(s)
  /\ loopPc' = "done"
  /\ UNCHANGED <<s, now, timerPc, inputPc, key, keysRead, tickReady,
                 nextTick, runeBack, onlyExact>>
  /\ UNCHANGED <<setup, chart>>

\* The timer goroutine leaving its select without setting Finished.
TimerFireNoFlag ==
  /\ ~ProcessExited
  /\ timerPc = "select"
  /\ Sub(now, s.state.StartedAt) >= s.timerSeconds * 1000
  /\ timerPc' = "stamp"
  /\ UNCHANGED <<s, now, loopPc, inputPc, key, keysRead, tickReady, nextTick,
                 result, runeBack, onlyExact>>
  /\ UNCHANGED <<setup, chart>>

\* Timer goroutine: select takes <-timer.C and sets Finished.
TimerFire ==
  /\ ~ProcessExited
  /\ timerPc = "select"
  /\ Sub(now, s.state.StartedAt) >= s.timerSeconds * 1000
  /\ s' = [s EXCEPT !.state.Finished = TRUE]
  /\ timerPc' = "stamp"
  /\ UNCHANGED <<now, loopPc, inputPc, key, keysRead, tickReady, nextTick,
                 result, runeBack, onlyExact>>
  /\ UNCHANGED <<setup, chart>>

\* Timer goroutine: s.state.EndedAt = time.Now()
TimerStamp ==
  /\ ~ProcessExited
  /\ timerPc = "stamp"
  /\ s' = [s EXCEPT !.state.EndedAt = now]
  /\ timerPc' = "done"
  /\ UNCHANGED <<now, loopPc, inputPc, key, keysRead, tickReady, nextTick,
                 result, runeBack, onlyExact>>
  /\ UNCHANGED <<setup, chart>>

\* Timer goroutine: select takes <-s.timerDone and stops the timer.
TimerCancel ==
  /\ ~ProcessExited
  /\ timerPc = "select"
  /\ s.timerDone = "closed"
  /\ timerPc' = "done"
  /\ UNCHANGED <<s, now, loopPc, inputPc, key, keysRead, tickReady, nextTick,
                 result, runeBack, onlyExact>>
  /\ UNCHANGED <<setup, chart>>

Next ==
  \/ Advance
  \/ ReadKey
  \/ ReadErr
  \/ LoopCheck
  \/ KeyCase
  \/ TickCase
  \/ ErrCase
  \/ AfterLoop
  \/ GetResultSample
  \/ GetResultCompute
  \/ TimerFire
  \/ TimerStamp
  \/ TimerCancel

Spec == Init /\ [][Next]_vars

\* The scheduling the Go runtime gives: time passes and the ticker ticks, every
\* goroutine that can take a step takes it, and a select with a tick ready
\* does not ignore it for ever.
Fairness ==
  /\ WF_vars(Advance)
  /\ WF_vars(LoopCheck)
  /\ WF_vars(TickCase)
  /\ WF_vars(AfterLoop)
  /\ WF_vars(GetResultSample)
  /\ WF_vars(GetResultCompute)
  /\ WF_vars(TimerFire)
  /\ WF_vars(TimerStamp)
  /\ WF_vars(TimerCancel)

LiveSpec == Init /\ [][Next]_vars /\ Fairness

\* LiveSpec, and a select that has a key waiting on keyChan again and again
\* takes it in the end (select chooses at random among its ready cases).
KeyLiveSpec == Init /\ [][Next]_vars /\ Fairness /\ SF_vars(KeyCase)

\* ------------------------------------------- runTest before the event loop
\* GenerateWords / GenerateForTimer reject a non-positive count or duration.
GenerateFails ==
  \/ setup.Mode = ModeTimer /\ setup.Seconds <= 0
  \/ setup.Mode = ModeWords /\ setup.Words <= 0

\* The target generation with a non-positive count or duration let through.
GenerateTargetClamped ==
  /\ setup.pc = "generate"
  /\ \E target \in Targets :
       setup' = [setup EXCEPT !.pc = "newSession", !.target = target]
  /\ UNCHANGED <<s, now, timerPc, loopPc, inputPc, key, keysRead, tickReady,
                 nextTick, result, runeBack, onlyExact, chart>>

\* runTest generates the target for the mode; an error is returned to the
\* caller.  (The generated text is any of Targets.)
GenerateTarget ==
  /\ setup.pc = "generate"
  /\ IF GenerateFails
     THEN /\ setup' = [setup EXCEPT !.pc = "failed"]
          /\ loopPc' = "error"
     ELSE /\ \E target \in Targets :
               setup' = [setup EXCEPT !.pc = "newSession", !.target = target]
          /\ UNCHANGED loopPc
  /\ UNCHANGED <<s, now, timerPc, inputPc, key, keysRead, tickReady,
                 nextTick, result, runeBack, onlyExact, chart>>

\* session := test.NewSession(...) with TimerSeconds: opts.Seconds
CreateSession ==
  /\ setup.pc = "newSession"
  /\ s' = NewSession(setup.target, setup.Mode, setup.Seconds)
  /\ setup' = [setup EXCEPT !.pc = "readerInit"]
  /\ UNCHANGED <<now, timerPc, loopPc, inputPc, key, keysRead, tickReady,
                 nextTick, result, runeBack, onlyExact, chart>>

\* reader.Init() puts the terminal in raw mode, or fails.
ReaderInit ==
  /\ setup.pc = "readerInit"
  /\ \/ /\ setup' = [setup EXCEPT !.pc = "startLoop"]
        /\ UNCHANGED loopPc
     \/ /\ setup' = [setup EXCEPT !.pc = "failed"]
        /\ loopPc' = "error"
  /\ UNCHANGED <<s, now, timerPc, inputPc, key, keysRead, tickReady,
                 nextTick, result, runeBack, onlyExact, chart>>

\* The initial render, the input goroutine and the ticker are started and the
\* loop is entered.
StartLoop ==
  /\ setup.pc = "startLoop"
  /\ setup' = SetupDone
  /\ inputPc' = "read"
  /\ loopPc' = "check"
  /\ tickReady' = FALSE
  /\ nextTick' = now + tickInterval
  /\ UNCHANGED <<s, now, timerPc, key, keysRead, result, runeBack, onlyExact,
                 chart>>

RawModeOn == setup.pc \in {"startLoop", "running"}

StartupInit ==
  /\ \E mode \in Modes, words \in WordsOptions, seconds \in SecondsOptions :
       setup = [pc |-> "generate", Mode |-> mode, Words |-> words,
                Seconds |-> seconds, target |-> <<>>]
  /\ s = NoSession
  /\ now = Epoch
  /\ timerPc = "none"
  /\ loopPc = "setup"
  /\ inputPc = "none"
  /\ key = NoKey
  /\ keysRead = 0
  /\ tickReady = FALSE
  /\ nextTick = Epoch + tickInterval
  /\ result = NoResult
  /\ runeBack = NoRuneBack
  /\ onlyExact = TRUE
  /\ chart = NoChart

StartupNext ==
  \/ GenerateTarget
  \/ CreateSession
  \/ ReaderInit
  \/ StartLoop
  \/ Next

\* runTest from its first line.
StartupSpec == StartupInit /\ [][StartupNext]_vars

\* -------------------------------------------------------- the chart renderer
ChartInit ==
  /\ \E samples \in ChartSeries, width \in ChartWidths, height \in ChartHeights :
       chart = [pc |-> "input", samples |-> samples,
                opts |-> [Width |-> width, Height |-> height], out |-> NoData]
  /\ setup = SetupDone
  /\ s = NoSession
  /\ now = Epoch
  /\ timerPc = "none"
  /\ loopPc = "done"
  /\ inputPc = "exited"
  /\ key = NoKey
  /\ keysRead = 0
  /\ tickReady = FALSE
  /\ nextTick = Epoch + tickInterval
  /\ result = NoResult
  /\ runeBack = NoRuneBack
  /\ onlyExact = TRUE

\* charts.RenderChart on the net WPM series.
RenderSingle ==
  /\ chart.pc = "input"
  /\ chart' = [chart EXCEPT !.pc = "single",
                            !.out = RenderChart(wpmPoints(chart.samples), chart.opts)]
  /\ UNCHANGED <<s, now, timerPc, loopPc, inputPc, key, keysRead, tickReady,
                 nextTick, result, runeBack, onlyExact, setup>>

\* charts.RenderDualChart on the net and raw WPM series.
RenderDual ==
  /\ chart.pc = "input"
  /\ chart' = [chart EXCEPT !.pc = "dual",
                            !.out = RenderDualChart(wpmPoints(chart.samples),
                                                    rawPoints(chart.samples), chart.opts)]
  /\ UNCHANGED <<s, now, timerPc, loopPc, inputPc, key, keysRead, tickReady,
                 nextTick, result, runeBack, onlyExact, setup>>

ChartNext ==
  \/ RenderSingle
  \/ RenderDual

ChartSpec == ChartInit /\ [][ChartNext]_vars

\* ------------------------------------------------ a second call of GetResult
\* GetResult is called once more on the ended session.
GetResultAgain ==
  /\ loopPc = "done"
  /\ result # NoResult
  /\ s' = GetResultSession(s)
  /\ result' = GetResult(GetResultSession(s))
  /\ loopPc' = "again"
  /\ UNCHANGED <<now, timerPc, inputPc, key, keysRead, tickReady, nextTick,
                 runeBack, onlyExact, setup, chart>>

ResultNext ==
  \/ Next
  \/ GetResultAgain

\* runTest followed by a second call of GetResult.
ResultSpec == Init /\ [][ResultNext]_vars

TypeOK ==
  /\ now \in Epoch..MaxTime
  /\ timerPc \in {"none", "select", "stamp", "done"}
  /\ loopPc \in {"check", "select", "exited", "getResult", "compute", "done",
                 "error", "panic", "again"}
  /\ inputPc \in {"read", "sendKey", "sendErr", "exited"}
  /\ keysRead \in 0..MaxKeys

\* ----------------------------------------------------------------- claims
Terminal == s.state.Finished \/ s.state.Aborted

AllCorrect == \A i \in 1..Len(s.state.CharStates) : s.state.CharStates[i] = CharCorrect

Attempted == {i \in 1..Len(s.state.CharStates) : s.state.CharStates[i] # CharUnattempted}

ControlLoopStep ==
  \/ LoopCheck
  \/ KeyCase
  \/ TickCase
  \/ ErrCase
  \/ AfterLoop
  \/ GetResultSample
  \/ GetResultCompute

\* C1: Finished and Aborted are never both true, in any reachable state of
\* session, timer goroutine and event loop together.
C1_FinishedXorAborted == ~(s.state.Finished /\ s.state.Aborted)

\* C2: once the session is terminal, every further engine event the loop
\* applies (a key through HandleKey, an abort, a tick through TakeSample)
\* leaves the whole session unchanged and does not panic.
C2_TerminalEventsAreNoOps ==
  [][(Terminal /\ (KeyCase \/ TickCase)) => (s' = s)]_vars

\* C3: every write to a SessionState field is a step of the control loop; the
\* timer goroutine and the input goroutine never write it.
C3_SingleWriter == [][(s'.state # s.state) => ControlLoopStep]_vars

\* C4: once Abort has set Aborted, the timer goroutine performs no further
\* write: Finished and EndedAt keep the values they had when Abort returned.
C4_NoTimerWriteAfterAbort ==
  [][s.state.Aborted =>
       (s'.state.Finished = s.state.Finished /\ s'.state.EndedAt = s.state.EndedAt)]_vars

\* C5: whenever Finished or Aborted can be read as true, EndedAt is already
\* stamped, and a computed result has a duration from a real end timestamp.
C5_NoPartialTerminalTransition ==
  /\ Terminal => s.state.EndedAt # ZeroTime
  /\ result # NoResult => result.Duration >= 0

\* C6: after every event the typed buffer is as long as the number of verdicts
\* that are not Unattempted, and there is one verdict per target character.
C6_TypedMatchesVerdicts ==
  /\ Len(s.state.TypedRunes) = Cardinality(Attempted)
  /\ DOMAIN s.state.CharStates = 1..Len(s.state.TargetRunes)

\* C6 witness: a character was typed and removed again and another one is in
\* the buffer.
C6_Witness ==
  /\ runeBack.phase = "back"
  /\ runeBack.accepted
  /\ Len(s.state.TypedRunes) >= 1
  /\ Cardinality(Attempted) < Len(s.state.TargetRunes)

\* C7 as stated: a non-timer session whose final typed text equals the target
\* has all verdicts Correct and accuracy exactly 100, whatever was mistyped
\* and corrected on the way.
C7_CorrectedErrorsDontCount ==
  (result # NoResult /\ result.Mode # ModeTimer
     /\ s.state.TypedRunes = s.state.TargetRunes)
  => (AllCorrect /\ result.Accuracy = 100 * 100)

\* C7 amended: accuracy is correctChars / totalTyped with totalTyped counting
\* every accepted rune, removed later or not: for a non-timer session whose
\* final typed text equals the target all verdicts are Correct and
\* correctChars = len(target) <= totalTyped, and accuracy is 100 exactly when
\* totalTyped = len(target), that is when no accepted rune was removed.
C7_AccuracyFromCounters ==
  (result # NoResult /\ result.Mode # ModeTimer
     /\ s.state.TypedRunes = s.state.TargetRunes)
  => /\ AllCorrect
     /\ result.CorrectChars = Len(s.state.TargetRunes)
     /\ result.TotalTyped >= Len(s.state.TargetRunes)
     /\ result.Accuracy = (Len(s.state.TargetRunes) * 100 * 100) \div result.TotalTyped
     /\ (result.Accuracy = 100 * 100) <=> (result.TotalTyped = Len(s.state.TargetRunes))

\* C7 witness: a finished non-timer session with the target typed after a
\* correction, and an accuracy below 100.
C7_Witness ==
  /\ result # NoResult
  /\ result.Mode # ModeTimer
  /\ s.state.TypedRunes = s.state.TargetRunes
  /\ result.TotalTyped > Len(s.state.TargetRunes)
  /\ result.Accuracy < 100 * 100

\* C8: in words or quote mode, typing exactly the target's characters in
\* order and nothing else finishes the session on the last character, with
\* totalTyped = correctChars = len(target) and accuracy 100 in the result.
C8_ExactTypingFinishes ==
  (onlyExact /\ s.state.Mode # ModeTimer
     /\ Len(s.state.TypedRunes) = Len(s.state.TargetRunes))
  => /\ s.state.Finished
     /\ ~s.state.Aborted
     /\ s.metrics.totalTyped = Len(s.state.TargetRunes)
     /\ s.metrics.correctChars = Len(s.state.TargetRunes)
     /\ result # NoResult =>
          /\ result.Accuracy = 100 * 100
          /\ result.TotalTyped = Len(s.state.TargetRunes)
          /\ result.CorrectChars = Len(s.state.TargetRunes)

\* C8 witness: the result of a two-character target typed exactly.
C8_Witness ==
  /\ onlyExact
  /\ s.state.Mode # ModeTimer
  /\ Len(s.state.TargetRunes) >= 2
  /\ result # NoResult
  /\ result.Accuracy = 100 * 100

\* C9 as stated: from every session state that is not terminal, a rune event
\* immediately followed by a backspace event leaves correctChars at its value
\* before the rune.
C9_RuneBackspaceRestores ==
  (runeBack.phase = "back" /\ runeBack.running)
  => s.metrics.correctChars = runeBack.cc

\* C9 amended: the same, for a rune that is accepted (the typed buffer is
\* shorter than the target) and a backspace handled while the session is
\* still not terminal (the rune did not complete the target, the timer did not
\* expire in between).
C9_AcceptedRuneBackspaceRestores ==
  (runeBack.phase = "back" /\ runeBack.running /\ runeBack.accepted /\ runeBack.live)
  => s.metrics.correctChars = runeBack.cc

\* C9 witness: a Correct rune after earlier typing, removed by the backspace
\* right after it.
C9_Witness ==
  /\ runeBack.phase = "back"
  /\ runeBack.running
  /\ runeBack.accepted
  /\ runeBack.live
  /\ runeBack.correct
  /\ runeBack.cc >= 1

\* C10: 0 <= correctChars <= totalTyped in every state, so every sample and
\* every result has 0 <= net WPM <= raw WPM and an accuracy in [0,100] that
\* is 0 when nothing was typed.
C10_CountersAndRatesInRange ==
  /\ 0 <= s.metrics.correctChars
  /\ s.metrics.correctChars <= s.metrics.totalTyped
  /\ \A i \in 1..Len(s.metrics.samples) :
       /\ 0 <= s.metrics.samples[i].WPM
       /\ s.metrics.samples[i].WPM <= s.metrics.samples[i].RawWPM
  /\ result # NoResult =>
       /\ 0 <= result.Accuracy
       /\ result.Accuracy <= 100 * 100
       /\ (result.TotalTyped = 0 => result.Accuracy = 0)
       /\ 0 <= result.WPM
       /\ result.WPM <= result.RawWPM
       /\ \A i \in 1..Len(result.Samples) :
            /\ 0 <= result.Samples[i].WPM
            /\ result.Samples[i].WPM <= result.Samples[i].RawWPM

\* C10 witness: a result with mistakes in it (raw above net above 0) and a
\* periodic sample between the first and the final one.
C10_Witness ==
  /\ result # NoResult
  /\ 0 < result.WPM
  /\ result.WPM < result.RawWPM
  /\ 0 < result.Accuracy
  /\ result.Accuracy < 100 * 100
  /\ Len(result.Samples) >= 3

NonDecreasing(samples) ==
  \A i \in 1..Len(samples) : \A j \in i..Len(samples) :
    samples[i].TimeMs <= samples[j].TimeMs

ZeroSample == [TimeMs |-> 0, WPM |-> 0, RawWPM |-> 0]

\* C11: the sample sequence of the session result is non-decreasing in elapsed
\* time, the final sample of GetResult included.
C11_ResultSamplesNonDecreasing ==
  result # NoResult => NonDecreasing(result.Samples)

\* C12: the result of a session that started and ended has, as last sample,
\* the sample at elapsed = EndedAt - StartedAt, with the result's WPM and
\* RawWPM, also when no periodic sample was taken.
C12_FinalSampleAtEnd ==
  result # NoResult =>
    /\ Len(result.Samples) >= 2
    /\ result.Samples[Len(result.Samples)].TimeMs = result.Duration
    /\ result.Samples[Len(result.Samples)].WPM = result.WPM
    /\ result.Samples[Len(result.Samples)].RawWPM = result.RawWPM

\* C13: no sample exists before the session starts; once it has started the
\* first sample is (0 ms, 0, 0), and it is in the sequence exactly once.
C13_InitialSample ==
  /\ s.state.StartedAt = ZeroTime => s.metrics.samples = <<>>
  /\ s.state.StartedAt # ZeroTime =>
       /\ Len(s.metrics.samples) >= 1
       /\ s.metrics.samples[1] = ZeroSample
       /\ Cardinality({i \in 1..Len(s.metrics.samples) :
                         s.metrics.samples[i] = ZeroSample}) = 1

\* C13 witness: a started session with a periodic sample after the initial one.
C13_Witness ==
  /\ s.state.StartedAt # ZeroTime
  /\ Len(s.metrics.samples) >= 2
  /\ ~Terminal

\* C14: in timer mode, a session in which nothing was typed and that the timer
\* ended is Finished and not Aborted, and its result has totalTyped 0,
\* accuracy 0 and WPM 0.
C14_EmptyTimerSession ==
  (result # NoResult /\ result.Mode = ModeTimer /\ result.TotalTyped = 0)
  => /\ s.state.Finished
     /\ ~s.state.Aborted
     /\ result.CorrectChars = 0
     /\ result.Accuracy = 0
     /\ result.WPM = 0
     /\ result.RawWPM = 0

\* C14 witness: the result of a timer session that expired with an empty
\* typed buffer and no rune ever typed.
C14_Witness ==
  /\ result # NoResult
  /\ result.Mode = ModeTimer
  /\ result.TotalTyped = 0
  /\ timerPc = "done"
  /\ s.state.TypedRunes = <<>>

\* The timer of this session expires within the modelled time.
TimerDue ==
  /\ s.state.Mode = ModeTimer
  /\ s.state.StartedAt # ZeroTime
  /\ s.state.StartedAt + s.timerSeconds * 1000 <= MaxTime

LoopExited == loopPc \in {"exited", "getResult", "compute", "done"}

\* C15: in timer mode, once the session is running, and with no abort and no
\* input error, the event loop eventually exits with the session Finished,
\* whether or not another key arrives; and the timer goroutine, once it has
\* left its select, never waits on a timer again (the timer fires at most
\* once).
C15_TimerSessionEnds ==
  /\ ([](~s.state.Aborted /\ loopPc # "error"))
       => (TimerDue ~> (LoopExited /\ s.state.Finished))
  /\ [][(timerPc \in {"stamp", "done"}) => (timerPc' \in {"stamp", "done"})]_vars

\* C15 witness: the loop has exited on a timer expiry.
C15_Witness ==
  /\ TimerDue
  /\ LoopExited
  /\ s.state.Finished
  /\ ~s.state.Aborted
  /\ timerPc \in {"stamp", "done"}

\* The loop hands a key event of this type to the session.
KeyEventOf(keyTypes) == KeyCase /\ key.Type \in keyTypes

\* C16: the typed buffer is never longer than the target; in timer mode a rune
\* event received when the buffer is as long as the target changes neither the
\* typed buffer, the verdicts, totalTyped, correctChars nor the terminal flags
\* and raises no fault, and a timer session becomes Finished only when its
\* timer has elapsed; in words and quote mode a buffer as long as the target
\* means the session is Finished.
C16_TypedNeverOutrunsTarget ==
  /\ [](Len(s.state.TypedRunes) <= Len(s.state.TargetRunes))
  /\ []((s.state.Mode # ModeTimer
           /\ Len(s.state.TypedRunes) = Len(s.state.TargetRunes))
          => s.state.Finished)
  /\ [][(/\ KeyEventOf({KeyRune})
         /\ s.state.Mode = ModeTimer
         /\ Len(s.state.TypedRunes) = Len(s.state.TargetRunes))
        => (/\ s'.state.TypedRunes = s.state.TypedRunes
            /\ s'.state.CharStates = s.state.CharStates
            /\ s'.metrics.totalTyped = s.metrics.totalTyped
            /\ s'.metrics.correctChars = s.metrics.correctChars
            /\ s'.state.Finished = s.state.Finished
            /\ s'.state.Aborted = s.state.Aborted
            /\ ~s'.panicked
            /\ loopPc' = "check")]_vars
  /\ [][(s.state.Mode = ModeTimer /\ ~s.state.Finished /\ s'.state.Finished)
        => (Sub(now, s.state.StartedAt) >= s.timerSeconds * 1000)]_vars

\* C16 witness: a running timer session has just ignored a rune typed on a full
\* buffer.
C16_Witness ==
  /\ s.state.Mode = ModeTimer
  /\ runeBack.phase = "rune"
  /\ runeBack.running
  /\ ~runeBack.accepted
  /\ ~Terminal
  /\ Len(s.state.TypedRunes) = Len(s.state.TargetRunes)

C18_BackspaceRemovesLast ==
  /\ [](s.metrics.totalTyped >= 0)
  /\ [][(KeyEventOf({KeyBackspace}) /\ Len(s.state.TypedRunes) > 0)
        => LET n == Len(s.state.TypedRunes) IN
           /\ ~Terminal =>
                /\ Len(s'.state.TypedRunes) = n - 1
                /\ s'.state.CharStates[n] = CharUnattempted
           /\ Len(s'.state.TypedRunes) \in {n - 1, n}
           /\ \A i \in 1..Len(s'.state.TypedRunes) :
                s'.state.TypedRunes[i] = s.state.TypedRunes[i]
           /\ \A i \in 1..Len(s.state.CharStates) :
                i # n => s'.state.CharStates[i] = s.state.CharStates[i]]_vars

\* C18 witness: a running session has handled a backspace on a buffer of two
\* or more characters, the first of which is still there with its verdict.
C18_Witness ==
  /\ runeBack.phase = "back"
  /\ runeBack.running
  /\ runeBack.accepted
  /\ runeBack.live
  /\ Len(s.state.TypedRunes) >= 1
  /\ s.state.CharStates[1] # CharUnattempted
  /\ ~Terminal

\* C19 as stated: a backspace event received while the typed buffer is empty
\* changes neither the typed buffer, the verdicts, totalTyped, correctChars,
\* StartedAt, the samples nor the timer, also as first event of the session.
C19_BackspaceOnEmptyIsNoOp ==
  [][(KeyEventOf({KeyBackspace}) /\ Len(s.state.TypedRunes) = 0)
     => (/\ s'.state.TypedRunes = s.state.TypedRunes
         /\ s'.state.CharStates = s.state.CharStates
         /\ s'.metrics.totalTyped = s.metrics.totalTyped
         /\ s'.metrics.correctChars = s.metrics.correctChars
         /\ s'.state.StartedAt = s.state.StartedAt
         /\ s'.metrics.samples = s.metrics.samples
         /\ s'.timerDone = s.timerDone
         /\ timerPc' = timerPc)]_vars

\* C20 as stated: a key event (rune, backspace, Ctrl+C or Escape) that the loop
\* receives when the session is terminal changes no session state and does not
\* change whether the session counts as finished or aborted.
C20_LateKeyDiscarded ==
  [][(Terminal /\ KeyEventOf({KeyRune, KeyBackspace, KeyCtrlC, KeyEscape}))
     => (/\ s'.state = s.state
         /\ s'.metrics = s.metrics
         /\ IsAborted(s') = IsAborted(s))]_vars

\* A key event is waiting on keyChan.
KeyPending == inputPc = "sendKey"

C22_InputErrorAborts ==
  (loopPc = "error" /\ s.state.StartedAt # ZeroTime /\ ~s.state.Finished)
    => (/\ s.state.Aborted
        /\ s.state.EndedAt # ZeroTime
        /\ s.timerDone # "open")

\* C23 as stated: a result (summary, storage) is never produced for an aborted
\* session, and a run that has ended with the session Finished has produced
\* one.
C23_SummaryIffFinished ==
  /\ result # NoResult => ~s.state.Aborted
  /\ (loopPc = "done" /\ s.state.Finished) => result # NoResult

\* C24 as stated: what is seen through a snapshot taken earlier (here the one
\* of the initial render) is what the session state was when it was taken.
C24_SnapshotIsCopy == Deref(InitialSnapshot) = StateAtInitialRender

\* C25: an Enter or Unknown key event changes nothing in the session: it does
\* not start it, and leaves typed buffer, verdicts, counters, samples, flags
\* and timer as they were.
C25_EnterUnknownIgnored ==
  [][KeyEventOf({KeyEnter, KeyUnknown})
     => (s' = s /\ timerPc' = timerPc /\ result' = result /\ loopPc' = "check")]_vars

\* C25 witness: the loop has taken every key read so far and the session is
\* neither started nor aborted: the keys were Enter or Unknown events.
C25_Witness ==
  /\ keysRead >= 2
  /\ inputPc = "read"
  /\ loopPc = "check"
  /\ s.state.StartedAt = ZeroTime
  /\ ~Terminal

\* A sample other than the final one of GetResult is appended in this step.
SampleAppended ==
  /\ Len(s'.metrics.samples) > Len(s.metrics.samples)
  /\ loopPc # "getResult"

\* C28: a sample is appended by the key handler or the tick only once the
\* session has started, and either it is the initial sample of Start or at
\* least sampleInterval after the previous one; one call appends at most one
\* periodic sample; a tick before the start appends nothing.
C28_SamplesAnIntervalApart ==
  /\ [][SampleAppended =>
          LET old == s.metrics.samples
              new == s'.metrics.samples
          IN /\ s'.state.StartedAt # ZeroTime
             /\ SubSeq(new, 1, Len(old)) = old
             /\ Len(new) <= Len(old) + (IF s.state.StartedAt = ZeroTime THEN 2 ELSE 1)
             /\ \A i \in (Len(old) + 1)..Len(new) :
                  \/ i = 1 /\ new[i] = ZeroSample
                  \/ i > 1 /\ new[i].TimeMs - new[i - 1].TimeMs >= sampleInterval]_vars
  /\ [][(TickCase /\ s.state.StartedAt = ZeroTime) => (s' = s)]_vars

\* C28 witness: the initial sample and two periodic samples, taken while
\* ticks came every 200 ms.
C28_Witness ==
  /\ Len(s.metrics.samples) >= 3
  /\ loopPc \notin {"compute", "done"}
  /\ s.metrics.samples[3].TimeMs - s.metrics.samples[2].TimeMs >= sampleInterval

\* The options of this run are a non-positive word count in words mode or a
\* non-positive duration in timer mode.
InvalidOptions ==
  /\ setup # SetupDone
  /\ \/ setup.Mode = ModeWords /\ setup.Words <= 0
     \/ setup.Mode = ModeTimer /\ setup.Seconds <= 0

\* C26: with a non-positive word count (words mode) or duration (timer mode)
\* runTest never gets past the target generation: no session is constructed,
\* the terminal is not put in raw mode, the input goroutine is not started,
\* and the run ends with an error; a session that is constructed carries the
\* duration option as given, and a timer session always has a positive one.
C26_BadOptionsRejected ==
  /\ InvalidOptions =>
       /\ setup.pc \in {"generate", "failed"}
       /\ s = NoSession
       /\ ~RawModeOn
       /\ inputPc = "none"
       /\ setup.pc = "failed" => loopPc = "error"
  /\ (s # NoSession /\ setup # SetupDone) => s.timerSeconds = setup.Seconds
  /\ (s # NoSession /\ s.state.Mode = ModeTimer) => s.timerSeconds > 0

\* C26 witness: a timer run with a non-positive duration has been refused.
C26_Witness ==
  /\ InvalidOptions
  /\ setup.Mode = ModeTimer
  /\ setup.pc = "failed"
  /\ loopPc = "error"

\* The single-series chart of the net WPM series has been rendered.
SingleRendered == chart.pc = "single" /\ ~chart.out.noData

\* The multi-series chart has been rendered.
DualRendered == chart.pc = "dual" /\ ~chart.out.noData

\* The series [(0 ms, 0), (1000 ms, 60)] at width 20 and height 5.
ExampleChart ==
  /\ wpmPoints(chart.samples) =
       <<[TimeMs |-> 0, Value |-> 0], [TimeMs |-> 1000, Value |-> 60]>>
  /\ chart.opts = [Width |-> 20, Height |-> 5]

\* The row of the straight line from (column 0, row 4) to (column 13,
\* row 4 - 4 * 60/66) at column c, rounded.
ExampleLineRow(c) == RoundDiv(4 * (66 * 13 - 60 * c), 66 * 13)

SegmentCellSet(points, maxTime) ==
  LET rng == PaddedRange(wpmPoints(chart.samples) \o rawPoints(chart.samples)) IN
  UNION {{SegmentCells(points, i, maxTime, rng, chart.out.width, chart.out.height)[k] :
            k \in 1..Len(SegmentCells(points, i, maxTime, rng,
                                      chart.out.width, chart.out.height))} :
           i \in 1..(Len(points) - 1)}

\* C29 as stated: in the multi-series chart every cell on the line between
\* two consecutive points of the net WPM series, and of the raw series, is
\* filled.
C29_DualChartConnects ==
  DualRendered =>
    LET maxTime == DualMaxTime(wpmPoints(chart.samples), rawPoints(chart.samples)) IN
    \A cell \in SegmentCellSet(wpmPoints(chart.samples), maxTime)
                  \cup SegmentCellSet(rawPoints(chart.samples), maxTime) :
      chart.out.grid[cell.row][cell.col] # GlyphEmpty

\* C30: in a rendered single-series grid every cell a data point maps to holds
\* the data-point glyph, and a connector is only in a cell no data point maps
\* to; in the multi-series grid the cells of the net points hold the solid
\* glyph, those of the raw points the light or the solid one, and no cell
\* holds a connector.
C30_ConnectorNeverOverwritesPoint ==
  /\ SingleRendered =>
       LET points == wpmPoints(chart.samples)
           cells == PointCells(points, points[Len(points)].TimeMs, PaddedRange(points),
                               chart.out.width, chart.out.height)
       IN /\ \A i \in 1..Len(cells) :
               chart.out.grid[cells[i].row][cells[i].col] = GlyphSolid
          /\ \A r \in 0..(chart.out.height - 1) : \A c \in 0..(chart.out.width - 1) :
               chart.out.grid[r][c] = GlyphSolid
                 <=> \E i \in 1..Len(cells) : cells[i] = [row |-> r, col |-> c]
  /\ DualRendered =>
       LET primary == wpmPoints(chart.samples)
           secondary == rawPoints(chart.samples)
           rng == PaddedRange(primary \o secondary)
           maxTime == DualMaxTime(primary, secondary)
           pc == PointCells(primary, maxTime, rng, chart.out.width, chart.out.height)
           sc == PointCells(secondary, maxTime, rng, chart.out.width, chart.out.height)
       IN /\ \A i \in 1..Len(pc) : chart.out.grid[pc[i].row][pc[i].col] = GlyphSolid
          /\ \A i \in 1..Len(sc) :
               chart.out.grid[sc[i].row][sc[i].col] \in {GlyphLight, GlyphSolid}
          /\ \A r \in 0..(chart.out.height - 1) : \A c \in 0..(chart.out.width - 1) :
               chart.out.grid[r][c] # GlyphConnector

\* C30 witness: a single-series chart of three points in which the line from
\* the first to the second point passes over the cell of the third, and
\* connectors were drawn elsewhere.
C30_Witness ==
  /\ SingleRendered
  /\ Len(chart.samples) = 3
  /\ LET points == wpmPoints(chart.samples)
         rng == PaddedRange(points)
         w == chart.out.width
         h == chart.out.height
         third == PointCells(points, points[3].TimeMs, rng, w, h)[3]
         line == SegmentCells(points, 1, ConnectMaxTime(points), rng, w, h)
     IN /\ \E k \in 2..(Len(line) - 1) : line[k] = third
        /\ \E r \in 0..(h - 1) : \E c \in 0..(w - 1) :
             chart.out.grid[r][c] = GlyphConnector

\* The cells of the two series in the rendered multi-series chart.
DualPrimaryCells ==
  LET primary == wpmPoints(chart.samples)
      secondary == rawPoints(chart.samples)
      cells == PointCells(primary, DualMaxTime(primary, secondary),
                          PaddedRange(primary \o secondary),
                          chart.out.width, chart.out.height)
  IN {cells[i] : i \in 1..Len(cells)}

DualSecondaryCells ==
  LET primary == wpmPoints(chart.samples)
      secondary == rawPoints(chart.samples)
      cells == PointCells(secondary, DualMaxTime(primary, secondary),
                          PaddedRange(primary \o secondary),
                          chart.out.width, chart.out.height)
  IN {cells[i] : i \in 1..Len(cells)}

\* C31: in the multi-series grid a cell shows the solid glyph exactly when a
\* primary point maps to it, whether or not a secondary point maps to it too,
\* and the light glyph exactly when a secondary point and no primary point
\* maps to it.
C31_PrimaryWinsOverlap ==
  DualRendered =>
    LET pcells == DualPrimaryCells
        scells == DualSecondaryCells
    IN \A r \in 0..(chart.out.height - 1) : \A c \in 0..(chart.out.width - 1) :
         LET cell == [row |-> r, col |-> c] IN
         /\ chart.out.grid[r][c] = GlyphSolid <=> cell \in pcells
         /\ chart.out.grid[r][c] = GlyphLight
              <=> (cell \in scells /\ cell \notin pcells)

\* C31 witness: a multi-series chart with a cell that both series map to, a
\* cell only the primary series maps to and a cell only the secondary series
\* maps to.
C31_Witness ==
  /\ DualRendered
  /\ DualPrimaryCells \cap DualSecondaryCells # {}
  /\ DualPrimaryCells \ DualSecondaryCells # {}
  /\ DualSecondaryCells \ DualPrimaryCells # {}

\* C32: correctChars is the number of Correct verdicts; the verdict of a typed
\* position is Correct when the typed character is the target's and Incorrect
\* when it is not; the verdict of every position not typed is Unattempted.
C32_VerdictsMatchTyped ==
  /\ s.metrics.correctChars =
       Cardinality({i \in 1..Len(s.state.CharStates) : s.state.CharStates[i] = CharCorrect})
  /\ \A i \in 1..Len(s.state.CharStates) :
       s.state.CharStates[i] =
         IF i > Len(s.state.TypedRunes) THEN CharUnattempted
         ELSE IF s.state.TypedRunes[i] = s.state.TargetRunes[i] THEN CharCorrect
         ELSE CharIncorrect

\* C32 witness: after a backspace the buffer holds a mistyped first character
\* and a correct second one.
C32_Witness ==
  /\ keysRead >= 3
  /\ Len(s.state.TypedRunes) = 2
  /\ s.state.CharStates[1] = CharIncorrect
  /\ s.state.CharStates[2] = CharCorrect
  /\ s.metrics.totalTyped >= 3
  /\ s.metrics.correctChars = 1

\* C33 as stated: a second call of GetResult on the ended session returns the
\* same samples, counts and rates as the first and does not grow the samples
\* the session stores.
C33_GetResultIdempotent ==
  [][GetResultAgain
     => (/\ result'.Samples = result.Samples
         /\ result'.TotalTyped = result.TotalTyped
         /\ result'.CorrectChars = result.CorrectChars
         /\ result'.WPM = result.WPM
         /\ result'.RawWPM = result.RawWPM
         /\ s'.metrics.samples = s.metrics.samples)]_vars

\* C34: timerDone is created once, by the start of a timer session, and
\* closed at most once, after it was created; no run panics on a close; when
\* the loop has exited, the timer goroutine is not left waiting in its select
\* (it has fired, or timerDone is closed), and it terminates unless the
\* process exits first.
C34_TimerDoneClosedOnce ==
  /\ [](~s.panicked /\ loopPc # "panic")
  /\ [][(s'.timerDone # s.timerDone)
        => \/ /\ s.timerDone = "nil"
              /\ s'.timerDone = "open"
              /\ timerPc = "none"
              /\ timerPc' = "select"
           \/ /\ s.timerDone = "open"
              /\ s'.timerDone = "closed"]_vars
  /\ []((LoopExited /\ timerPc = "select") => s.timerDone = "closed")
  /\ [](timerPc # "none" => s.timerDone # "nil")
  /\ (LoopExited /\ timerPc \in {"select", "stamp"})
       ~> (timerPc = "done" \/ ProcessExited)

\* C34 witness: a timer session was aborted while its timer was armed; the
\* loop has exited and the timer goroutine has stopped the timer and ended.
C34_Witness ==
  /\ LoopExited
  /\ s.state.Aborted
  /\ ~s.state.Finished
  /\ s.timerDone = "closed"
  /\ timerPc = "done"

====
